---------------------------- MODULE Spec2Model ----------------------------
(***************************************************************************)
(* A model of uv-up (src/index.tsx): the interactive dependency updater.   *)
(*                                                                         *)
(* Strings the program inspects character by character (declarations,     *)
(* versions, manifest text) are sequences of one-character strings, so     *)
(* that the regular expressions of the source are modelled by what they    *)
(* match.  Strings the program only compares (file paths, modes) are TLA+  *)
(* strings.  Cursors keep the source's 0-based values.                     *)
(***************************************************************************)
EXTENDS Integers, Sequences, FiniteSets, TLC

\* ------------------------------------------------------------- bounds
\* How many times the accept key may start updateDependencies in one run.
MaxAccepts == 2

\* ------------------------------------------------------------ strings
Min(a, b) == IF a < b THEN a ELSE b
Max(a, b) == IF a > b THEN a ELSE b

\* latestVersion before resolution, and after a failed resolution.
Undefined == <<"undefined">>
Null == <<"null">>

\* The character class [>=<~!] of DEPENDENCY_REGEX and OPERATOR_REGEX.
IsOpChar(c) == c \in {">", "=", "<", "~", "!"}

\* White space as String.prototype.trim sees it (the model's alphabet has
\* the space only).
IsSpace(c) == c = " "

RECURSIVE TrimLeft(_)
TrimLeft(s) ==
    IF s = <<>> THEN <<>>
    ELSE IF IsSpace(Head(s)) THEN TrimLeft(Tail(s)) ELSE s

RECURSIVE TrimRight(_)
TrimRight(s) ==
    IF s = <<>> THEN <<>>
    ELSE IF IsSpace(s[Len(s)]) THEN TrimRight(SubSeq(s, 1, Len(s) - 1)) ELSE s

Trim(s) == TrimRight(TrimLeft(s))

\* First index of character c in s at or after position i, 0 when none.
RECURSIVE IndexFrom(_, _, _)
IndexFrom(s, c, i) ==
    IF i > Len(s) THEN 0
    ELSE IF s[i] = c THEN i ELSE IndexFrom(s, c, i + 1)

IndexOf(s, c) == IndexFrom(s, c, 1)

\* Does pat occur in text starting at position i?
MatchesAt(text, pat, i) ==
    /\ i + Len(pat) - 1 <= Len(text)
    /\ SubSeq(text, i, i + Len(pat) - 1) = pat

\* String.prototype.replace with a global regular expression that is a
\* fully escaped literal: every non-overlapping occurrence of pat, found
\* left to right, becomes rep.  (rep holds no "$" in the model's alphabet,
\* so no replacement pattern is expanded.)
RECURSIVE ReplaceFrom(_, _, _, _)
ReplaceFrom(text, pat, rep, i) ==
    IF i > Len(text) THEN <<>>
    ELSE IF MatchesAt(text, pat, i)
         THEN rep \o ReplaceFrom(text, pat, rep, i + Len(pat))
         ELSE <<text[i]>> \o ReplaceFrom(text, pat, rep, i + 1)

ReplaceAll(text, pat, rep) ==
    IF pat = <<>> THEN text ELSE ReplaceFrom(text, pat, rep, 1)

\* String.prototype.replace(/[>=<~!]/g, ""): drop every operator character.
RECURSIVE StripOpChars(_)
StripOpChars(s) ==
    IF s = <<>> THEN <<>>
    ELSE IF IsOpChar(Head(s)) THEN StripOpChars(Tail(s))
         ELSE <<Head(s)>> \o StripOpChars(Tail(s))


\* ----------------------------------------------------- Version Classifier
IsDigit(c) == c \in {"0", "1", "2", "3", "4", "5", "6", "7", "8", "9"}

DigitVal(c) ==
    CASE c = "0" -> 0 [] c = "1" -> 1 [] c = "2" -> 2 [] c = "3" -> 3
      [] c = "4" -> 4 [] c = "5" -> 5 [] c = "6" -> 6 [] c = "7" -> 7
      [] c = "8" -> 8 [] c = "9" -> 9

\* The decimal value of a run of digits.
RECURSIVE ToNat(_)
ToNat(s) ==
    IF s = <<>> THEN 0
    ELSE 10 * ToNat(SubSeq(s, 1, Len(s) - 1)) + DigitVal(s[Len(s)])

\* String.prototype.split("."): the pieces between the dots.
RECURSIVE SplitDot(_)
SplitDot(s) ==
    LET k == IndexOf(s, ".")
    IN  IF k = 0 THEN <<s>>
        ELSE <<SubSeq(s, 1, k - 1)>> \o SplitDot(SubSeq(s, k + 1, Len(s)))

AllDigits(s) == s # <<>> /\ \A i \in 1..Len(s) : IsDigit(s[i])

\* A version Bun.semver.order accepts: major.minor.patch, all numeric
\* (pre-release and build tags are outside the model's alphabet).
SemverValid(v) ==
    LET parts == SplitDot(v)
    IN  Len(parts) = 3 /\ \A i \in 1..3 : AllDigits(parts[i])

\* Bun.semver.order(a, b): -1, 0 or 1 by numeric precedence.
SemverOrder(a, b) ==
    LET pa == SplitDot(a)
        pb == SplitDot(b)
        x == [i \in 1..3 |-> ToNat(pa[i])]
        y == [i \in 1..3 |-> ToNat(pb[i])]
    IN  IF x[1] # y[1] THEN (IF x[1] < y[1] THEN -1 ELSE 1)
        ELSE IF x[2] # y[2] THEN (IF x[2] < y[2] THEN -1 ELSE 1)
        ELSE IF x[3] # y[3] THEN (IF x[3] < y[3] THEN -1 ELSE 1)
        ELSE 0

\* compareVersions, had it taken any difference in precedence for an update.
compareVersions_AnyDifference(current, latest) ==
    IF current = <<>> \/ latest = <<>> THEN FALSE
    ELSE LET cleanCurrent == Trim(StripOpChars(current))
         IN  IF SemverValid(cleanCurrent) /\ SemverValid(latest)
             THEN SemverOrder(cleanCurrent, latest) # 0
             ELSE cleanCurrent # latest

\* compareVersions: is latest strictly newer than current?  A version
\* Bun.semver.order rejects takes the catch branch (string inequality).
compareVersions(current, latest) ==
    IF current = <<>> \/ latest = <<>> THEN FALSE
    ELSE LET cleanCurrent == Trim(StripOpChars(current))
         IN  IF SemverValid(cleanCurrent) /\ SemverValid(latest)
             THEN SemverOrder(cleanCurrent, latest) = -1
             ELSE cleanCurrent # latest

\* parseInt(v) || 0: the value of the leading digits, 0 when there are none.
RECURSIVE DigitRunLen(_)
DigitRunLen(s) ==
    IF s = <<>> \/ ~IsDigit(Head(s)) THEN 0 ELSE 1 + DigitRunLen(Tail(s))

ParseIntOr0(s) == ToNat(SubSeq(s, 1, DigitRunLen(s)))

\* The first two pieces of split(".").map(parseInt || 0), 0 for a missing one.
MajorMinor(v) ==
    LET parts == SplitDot(v)
    IN  <<ParseIntOr0(parts[1]),
          IF Len(parts) >= 2 THEN ParseIntOr0(parts[2]) ELSE 0>>

\* getVersionChangeType, had it looked at the minor number first.
getVersionChangeType_MinorFirst(current, latest) ==
    LET cleanCurrent == Trim(StripOpChars(current))
        c == MajorMinor(cleanCurrent)
        l == MajorMinor(latest)
    IN  IF l[2] > c[2] THEN "minor"
        ELSE IF l[1] > c[1] THEN "major"
        ELSE IF ~(SemverValid(cleanCurrent) /\ SemverValid(latest)) THEN "minor"
        ELSE IF SemverOrder(cleanCurrent, latest) = -1 THEN "patch"
        ELSE "none"

\* getVersionChangeType: the comparisons in the order of the source;
\* Bun.semver.order is reached last, and a version it rejects takes the
\* catch branch ("minor").
getVersionChangeType(current, latest) ==
    LET cleanCurrent == Trim(StripOpChars(current))
        c == MajorMinor(cleanCurrent)
        l == MajorMinor(latest)
    IN  IF l[1] > c[1] THEN "major"
        ELSE IF l[2] > c[2] THEN "minor"
        ELSE IF ~(SemverValid(cleanCurrent) /\ SemverValid(latest)) THEN "minor"
        ELSE IF SemverOrder(cleanCurrent, latest) = -1 THEN "patch"
        ELSE "none"

\* ------------------------------------------------------- Specifier Parser
\* Length of the longest prefix of s made of characters satisfying the
\* class: name characters [^>=<~![] or operator characters [>=<~!].
IsNameChar(c) == ~IsOpChar(c) /\ c # "["

RECURSIVE NameRunLen(_)
NameRunLen(s) ==
    IF s = <<>> \/ ~IsNameChar(Head(s)) THEN 0 ELSE 1 + NameRunLen(Tail(s))

RECURSIVE OpRunLen(_)
OpRunLen(s) ==
    IF s = <<>> \/ ~IsOpChar(Head(s)) THEN 0 ELSE 1 + OpRunLen(Tail(s))

\* What may follow the name (and the extras) in DEPENDENCY_REGEX:
\* nothing, or ([>=<~!].+) up to the end.
IsConstraintTail(r) == r = <<>> \/ (Len(r) >= 2 /\ IsOpChar(r[1]))

\* The lazy \[.*?\]: the index of the first "]" at or after j after which
\* the rest of the pattern still matches; 0 when there is none.
RECURSIVE ExtrasEnd(_, _)
ExtrasEnd(r, j) ==
    LET k == IndexFrom(r, "]", j)
    IN  IF k = 0 THEN 0
        ELSE IF IsConstraintTail(SubSeq(r, k + 1, Len(r))) THEN k
        ELSE ExtrasEnd(r, k + 1)

NoMatch == [ok |-> FALSE, g1 |-> <<>>, g2 |-> <<>>, g3 |-> <<>>]

\* baseMatch.match(DEPENDENCY_REGEX): groups 1 (name), 2 (extras) and 3
\* (constraint); an unmatched optional group is the empty string here, as
\* the source reads it with `|| ""`.
MatchDependency(s) ==
    LET n == NameRunLen(s)
        r == SubSeq(s, n + 1, Len(s))
        g1 == SubSeq(s, 1, n)
    IN  IF n = 0 THEN NoMatch
        ELSE IF r = <<>> THEN [ok |-> TRUE, g1 |-> g1, g2 |-> <<>>, g3 |-> <<>>]
        ELSE IF IsOpChar(r[1])
             THEN IF Len(r) >= 2
                  THEN [ok |-> TRUE, g1 |-> g1, g2 |-> <<>>, g3 |-> r]
                  ELSE NoMatch
        ELSE LET k == ExtrasEnd(r, 2)
             IN  IF k = 0 THEN NoMatch
                 ELSE [ok |-> TRUE, g1 |-> g1, g2 |-> SubSeq(r, 1, k),
                       g3 |-> SubSeq(r, k + 1, Len(r))]

\* constraintPart.match(OPERATOR_REGEX): the greedy operator run gives one
\* character back when it would leave nothing for (.+).
MatchOperator(cp) ==
    LET k == OpRunLen(cp)
    IN  IF k = 0 THEN [ok |-> FALSE, op |-> <<>>, ver |-> <<>>]
        ELSE IF k < Len(cp)
             THEN [ok |-> TRUE, op |-> SubSeq(cp, 1, k),
                   ver |-> SubSeq(cp, k + 1, Len(cp))]
        ELSE IF k >= 2
             THEN [ok |-> TRUE, op |-> SubSeq(cp, 1, k - 1), ver |-> <<cp[k]>>]
        ELSE [ok |-> FALSE, op |-> <<>>, ver |-> <<>>]

\* dep.split(";")[0] || dep
BaseMatch(dep) ==
    LET k == IndexOf(dep, ";")
        first == IF k = 0 THEN dep ELSE SubSeq(dep, 1, k - 1)
    IN  IF first = <<>> THEN dep ELSE first

\* parseDependency with "latest" as the version of a declaration without
\* one, as an earlier revision of the parser had it.
parseDependency_DefaultLatest(dep) ==
    LET match == MatchDependency(BaseMatch(dep))
        name == IF match.ok /\ Trim(match.g1) # <<>> THEN Trim(match.g1) ELSE dep
        operatorMatch == MatchOperator(match.g3)
        operator == IF operatorMatch.ok THEN operatorMatch.op ELSE <<">", "=">>
        version == IF operatorMatch.ok /\ Trim(operatorMatch.ver) # <<>>
                   THEN Trim(operatorMatch.ver)
                   ELSE <<"l", "a", "t", "e", "s", "t">>
    IN  [name |-> name,
         extras |-> match.g2,
         currentVersion |-> version,
         originalConstraint |-> dep,
         constraintOperator |-> operator,
         latestVersion |-> Undefined,
         selected |-> FALSE,
         hasUpdate |-> FALSE,
         loading |-> TRUE]

parseDependency(dep) ==
    LET match == MatchDependency(BaseMatch(dep))
        name == IF match.ok /\ Trim(match.g1) # <<>> THEN Trim(match.g1) ELSE dep
        operatorMatch == MatchOperator(match.g3)
        operator == IF operatorMatch.ok THEN operatorMatch.op ELSE <<">", "=">>
        version == IF operatorMatch.ok /\ Trim(operatorMatch.ver) # <<>>
                   THEN Trim(operatorMatch.ver)
                   ELSE <<"0", ".", "0", ".", "0">>
    IN  [name |-> name,
         extras |-> match.g2,
         currentVersion |-> version,
         originalConstraint |-> dep,
         constraintOperator |-> operator,
         latestVersion |-> Undefined,
         selected |-> FALSE,
         hasUpdate |-> FALSE,
         loading |-> TRUE]

\* ---------------------------------------------------- Constraint Rewriter
DQ == "\""
SQ == "'"

\* DEFAULT_CONSTRAINT_OPERATOR
DEFAULT_CONSTRAINT_OPERATOR == <<"~", "=">>

\* The operator, were the two comparisons that keep == and ~= missing.
NewOperator_AlwaysDefault(dep) == DEFAULT_CONSTRAINT_OPERATOR

\* The operator written for dep: == and ~= are kept, any other becomes ~=.
NewOperator(dep) ==
    IF dep.constraintOperator = <<"=", "=">> THEN <<"=", "=">>
    ELSE IF dep.constraintOperator = <<"~", "=">> THEN <<"~", "=">>
    ELSE DEFAULT_CONSTRAINT_OPERATOR

\* envMarker, had the marker not been carried over.
EnvMarker_Dropped(orig) == <<>>

\* originalConstraint.match(/;(.+)$/): from the first ";" to the end when
\* at least one character follows it, else nothing.
EnvMarker(orig) ==
    LET k == IndexOf(orig, ";")
    IN  IF k # 0 /\ k < Len(orig) THEN SubSeq(orig, k, Len(orig)) ELSE <<>>

\* The text the regular expression `"${escapedOriginal}"` matches.
OriginalPattern(dep) == <<DQ>> \o dep.originalConstraint \o <<DQ>>

\* newConstraint, had it been built with the version the manifest holds.
NewConstraint_KeepsVersion(dep) ==
    <<DQ>> \o dep.name \o dep.extras \o NewOperator(dep) \o dep.currentVersion
        \o EnvMarker(dep.originalConstraint) \o <<DQ>>

NewConstraint(dep) ==
    <<DQ>> \o dep.name \o dep.extras \o NewOperator(dep) \o dep.latestVersion
        \o EnvMarker(dep.originalConstraint) \o <<DQ>>

\* The test of a value, had null passed it.
Truthy_ButForUndefined(v) == v # Undefined /\ v # <<>>

\* `dep.latestVersion && dep.hasUpdate`, `latestVersion ? ... : false`
Truthy(v) == v # Undefined /\ v # Null /\ v # <<>>

Qualifies(dep) == Truthy(dep.latestVersion) /\ dep.hasUpdate

\* One pass of the loop, had it located declarations by package name (the
\* pattern "name[^"]*"): every double-quoted string that starts with the
\* name is replaced.
RECURSIVE ReplaceByNameFrom(_, _, _, _)
ReplaceByNameFrom(text, name, rep, i) ==
    IF i > Len(text) THEN <<>>
    ELSE LET j == IndexFrom(text, DQ, i + 1 + Len(name))
         IN  IF text[i] = DQ /\ MatchesAt(text, name, i + 1) /\ j # 0
             THEN rep \o ReplaceByNameFrom(text, name, rep, j + 1)
             ELSE <<text[i]>> \o ReplaceByNameFrom(text, name, rep, i + 1)

RewriteOne_ByName(content, dep) ==
    IF Qualifies(dep)
    THEN ReplaceByNameFrom(content, dep.name, NewConstraint(dep), 1)
    ELSE content

\* One pass of the loop over selectedDeps.
RewriteOne(content, dep) ==
    IF Qualifies(dep)
    THEN ReplaceAll(content, OriginalPattern(dep), NewConstraint(dep))
    ELSE content

\* The loop of updateDependencies over selectedDeps, in order.
RECURSIVE RewriteAll(_, _)
RewriteAll(content, deps) ==
    IF deps = <<>> THEN content
    ELSE RewriteAll(RewriteOne(content, Head(deps)), Tail(deps))

\* ------------------------------------------------------------ manifests
\* A manifest on disk as the program sees it: its path, the declared
\* project name, and what Bun.TOML.parse gives for project.dependencies:
\* kind "list" (an array of strings, `items`, each with the quote character
\* that wraps it in the text), "nolist" (no dependencies key) or "broken"
\* (the file does not parse).
Item(q, s) == [q |-> q, s |-> s]

RECURSIVE RenderItems(_)
RenderItems(items) ==
    IF items = <<>> THEN <<>>
    ELSE <<Head(items).q>> \o Head(items).s \o <<Head(items).q>>
         \o (IF Len(items) > 1 THEN <<",">> ELSE <<>>)
         \o RenderItems(Tail(items))

\* The manifest text: the dependency array as it is written in the file.
ManifestText(m) ==
    IF m.kind = "list" THEN <<"[">> \o RenderItems(m.items) \o <<"]">>
    ELSE IF m.kind = "nolist" THEN <<"#">>
    ELSE <<"[", "[">>

\* Packages the registry knows, with their latest version.
pkgAb == <<"a", "b">>
pkgCd == <<"c", "d">>
pkgFastapi == <<"f", "a", "s", "t", "a", "p", "i">>
pkgPydantic == <<"p", "y", "d", "a", "n", "t", "i", "c">>
pkgRequests == <<"r", "e", "q", "u", "e", "s", "t", "s">>

\* A family of packages for the Version Classifier: the package vXYZ has the
\* latest version X.Y.Z.
IsVersionedName(name) ==
    /\ Len(name) = 4
    /\ name[1] = "v"
    /\ \A i \in 2..4 : IsDigit(name[i])

RegistryKnows(name) ==
    \/ name \in {pkgAb, pkgCd, pkgFastapi, pkgPydantic, pkgRequests}
    \/ IsVersionedName(name)

RegistryLatest(name) ==
    CASE name = pkgAb -> <<"1", ".", "1", ".", "0">>
      [] name = pkgFastapi -> <<"0", ".", "1", "0", "9", ".", "2">>
      [] name = pkgPydantic -> <<"2", ".", "6", ".", "1">>
      [] name = pkgRequests -> <<"2", ".", "3", "1", ".", "0">>
      [] IsVersionedName(name) -> <<name[2], ".", name[3], ".", name[4]>>
      [] OTHER -> <<"2", ".", "0", ".", "0">>

\* Declarations of the manifests below.
abGe100 == <<"a", "b", ">", "=", "1", ".", "0", ".", "0">>
cdEq200 == <<"c", "d", "=", "=", "2", ".", "0", ".", "0">>
cdCompat100 == <<"c", "d", "~", "=", "1", ".", "0", ".", "0">>
abEq100 == <<"a", "b", "=", "=", "1", ".", "0", ".", "0">>
abCompat100 == <<"a", "b", "~", "=", "1", ".", "0", ".", "0">>
abGt100 == <<"a", "b", ">", "1", ".", "0", ".", "0">>
abLt100 == <<"a", "b", "<", "1", ".", "0", ".", "0">>
abLe100 == <<"a", "b", "<", "=", "1", ".", "0", ".", "0">>
abNe100 == <<"a", "b", "!", "=", "1", ".", "0", ".", "0">>
abBare == <<"a", "b">>
abExtrasMarker == <<"a", "b", "[", "x", "]", ">", "=", "1", ".", "0", ".", "0", ";", "m">>
efGe100 == <<"e", "f", ">", "=", "1", ".", "0", ".", "0">>
abUrl == <<"a", "b", "@", "u", ":", "/", "/", "h">>
abSpaced ==
    <<"a", "b", " ", "[", "x", "]", ">", "=", "1", ".", "0", ".", "0", " ",
      ";", "m">>
abExtras == <<"a", "b", "[", "x", "]", ">", "=", "1", ".", "0", ".", "0">>
fastapiGe ==
    <<"f", "a", "s", "t", "a", "p", "i", ">", "=", "0", ".", "1", "0", "4",
      ".", "1">>
pydanticCompat ==
    <<"p", "y", "d", "a", "n", "t", "i", "c", "~", "=", "2", ".", "5", ".",
      "0">>
requestsEq ==
    <<"r", "e", "q", "u", "e", "s", "t", "s", "=", "=", "2", ".", "3", "1",
      ".", "0">>

\* A workspace with two projects of one dependency each.
ManifestA ==
    [path |-> "a/pyproject.toml", name |-> "a", kind |-> "list",
     items |-> <<Item(DQ, abGe100)>>]
ManifestB ==
    [path |-> "b/pyproject.toml", name |-> "", kind |-> "list",
     items |-> <<Item(DQ, cdEq200)>>]

\* A workspace whose projects have two, one and no dependencies.
ManifestP ==
    [path |-> "p/pyproject.toml", name |-> "p", kind |-> "list",
     items |-> <<Item(DQ, abGe100), Item(DQ, cdEq200)>>]
ManifestQ ==
    [path |-> "q/pyproject.toml", name |-> "q", kind |-> "list",
     items |-> <<Item(DQ, cdCompat100)>>]
ManifestR ==
    [path |-> "r/pyproject.toml", name |-> "r", kind |-> "list", items |-> <<>>]

\* A manifest that declares what ManifestA declares, by the same text.
ManifestC ==
    [path |-> "c/pyproject.toml", name |-> "c", kind |-> "list",
     items |-> <<Item(DQ, abGe100)>>]

\* A manifest without a dependencies key.
ManifestN ==
    [path |-> "n/pyproject.toml", name |-> "n", kind |-> "nolist",
     items |-> <<>>]

\* One-project workspaces for the Constraint Rewriter: every operator, no
\* operator, extras and a marker, a package the registry does not know, a
\* declaration written twice, declarations in single quotes, a direct
\* reference to a URL, one package declared without and with extras, and a
\* declaration with spaces after the name and before the marker.
OneProject(items) ==
    <<[path |-> "w/pyproject.toml", name |-> "w", kind |-> "list",
       items |-> items]>>

RewriteWorkspaces ==
    {OneProject(<<Item(DQ, abGe100), Item(DQ, cdEq200)>>),
     OneProject(<<Item(DQ, abEq100), Item(DQ, abCompat100)>>),
     OneProject(<<Item(DQ, abGt100), Item(DQ, abLt100)>>),
     OneProject(<<Item(DQ, abLe100), Item(DQ, abNe100)>>),
     OneProject(<<Item(DQ, abBare), Item(DQ, abExtrasMarker)>>),
     OneProject(<<Item(DQ, efGe100), Item(DQ, cdCompat100)>>),
     OneProject(<<Item(DQ, abGe100), Item(DQ, abGe100)>>),
     OneProject(<<Item(SQ, abGe100), Item(DQ, cdCompat100)>>),
     OneProject(<<Item(DQ, abGe100), Item(SQ, abGe100)>>),
     OneProject(<<Item(DQ, abUrl), Item(DQ, abGe100)>>),
     OneProject(<<Item(DQ, abGe100), Item(DQ, abExtras)>>),
     OneProject(<<Item(DQ, abSpaced), Item(DQ, cdEq200)>>)}

\* The workspace of the README's example: one project, three declarations.
ExampleWorkspaces ==
    {OneProject(<<Item(DQ, fastapiGe), Item(DQ, pydanticCompat),
                  Item(DQ, requestsEq)>>)}

\* One-declaration workspaces for the Specifier Parser and the Version
\* Classifier: a declaration is a name (possibly missing, possibly followed
\* by a space), optional extras, an optional constraint (each operator with
\* an older, the latest, a newer and a non-numeric version, or an operator
\* alone) and an optional marker (possibly empty); and one workspace with a
\* manifest without a dependencies key and one with an empty list.
ParseNames == {<<>>, pkgAb, <<"a", "b", " ">>}
ParseExtras == {<<>>, <<"[", "x", "]">>}
ParseOperators ==
    {<<"=", "=">>, <<"~", "=">>, <<">", "=">>, <<">">>, <<"<">>,
     <<"<", "=">>, <<"!", "=">>}
ParseVersions ==
    {<<"1", ".", "0", ".", "0">>, <<"1", ".", "1", ".", "0">>,
     <<"2", ".", "0", ".", "0">>, <<"x">>}
ParseConstraints ==
    {<<>>, <<">", "=">>} \cup {op \o v : op \in ParseOperators, v \in ParseVersions}
ParseMarkers == {<<>>, <<";", "m">>, <<";">>}
ParseDeclarations ==
    {n \o e \o c \o k : n \in ParseNames, e \in ParseExtras,
                        c \in ParseConstraints, k \in ParseMarkers}
ParseWorkspaces ==
    {OneProject(<<Item(DQ, d)>>) : d \in ParseDeclarations}
        \cup {<<ManifestN, ManifestR, ManifestA>>}

\* One-declaration workspaces for the classification of a change: the
\* package vXYZ pinned to a version A.B.C, for all digits of ClassifyDigits.
ClassifyDigits == {"0", "1", "2", "3", "9"}
ClassifyTriples == ClassifyDigits \X ClassifyDigits \X ClassifyDigits
ClassifyWorkspaces ==
    {OneProject(<<Item(DQ, <<"v", l[1], l[2], l[3], "=", "=",
                             c[1], ".", c[2], ".", c[3]>>)>>) :
        c \in ClassifyTriples, l \in ClassifyTriples}

\* The working directories a session is started in: under Spec (every
\* event), and under NavSpec (the sessions that start no update).
Workspaces == {<<>>, <<ManifestA, ManifestB>>}
NavWorkspaces == {<<>>, <<ManifestP, ManifestQ, ManifestR>>}

\* ---------------------------------------------------------------- state
VARIABLES
    manifests,             \* the manifests found by the scan, in scan order
    disk,                  \* disk[i]: current text of manifests[i]
    projects,              \* useState<ProjectInfo[]>
    selectedProjectIndex,  \* useState(0)
    selectedDepIndex,      \* useState(0)
    mode,                  \* useState<AppMode>("project")
    loading,               \* useState(true)
    fetchPos,              \* position of fetchVersionsForAllProjects in projectsData
    inflight,              \* fetchLatestVersion calls issued and not settled
    updates,               \* invocations of updateDependencies, in call order
    exitedBy,              \* "none" while mounted, else what called exit() first
    handlerProjects,       \* the `projects` the subscribed input handler closed over
    lastEvent              \* the event handled last (history)

vars == <<manifests, disk, projects, selectedProjectIndex, selectedDepIndex,
          mode, loading, fetchPos, inflight, updates, exitedBy,
          handlerProjects, lastEvent>>

\* ---------------------------------------------------- Project Aggregator
\* dependencies.filter(string).map(parseDependency)
ParseAll(items) == [i \in 1..Len(items) |-> parseDependency(items[i].s)]

\* The loop of loadProjects over pyprojectFiles: a manifest whose
\* project.dependencies is an array becomes a project; any other is skipped.
RECURSIVE ProjectsData(_)
ProjectsData(ms) ==
    IF ms = <<>> THEN <<>>
    ELSE LET m == Head(ms)
         IN  (IF m.kind = "list"
              THEN <<[name |-> IF m.name # "" THEN m.name ELSE m.path,
                      dependencies |-> ParseAll(m.items),
                      filePath |-> m.path]>>
              ELSE <<>>)
             \o ProjectsData(Tail(ms))

\* ------------------------------------------------- Resolution Coordinator
\* The calls, had the callbacks shared one index variable: each addresses
\* the last dependency.
CallsOf_SharedIndex(project) ==
    {[filePath |-> project.filePath,
      index |-> Len(project.dependencies) - 1,
      name |-> project.dependencies[i].name,
      currentVersion |-> project.dependencies[i].currentVersion] :
        i \in 1..Len(project.dependencies)}

\* The calls project.dependencies.map issues for one project of
\* projectsData: each closes over the file path, the index and the
\* dependency as parsed.
CallsOf(project) ==
    {[filePath |-> project.filePath, index |-> i - 1,
      name |-> project.dependencies[i].name,
      currentVersion |-> project.dependencies[i].currentVersion] :
        i \in 1..Len(project.dependencies)}

\* The for-loop of fetchVersionsForAllProjects from position k on: a
\* project without dependencies is awaited at once (Promise.all of nothing),
\* so the loop stops at the first project that has calls to issue.
RECURSIVE NextFetchPos(_, _)
NextFetchPos(data, k) ==
    IF k > Len(data) THEN k
    ELSE IF data[k].dependencies # <<>> THEN k
    ELSE NextFetchPos(data, k + 1)

\* The calls issued, had the loop not awaited each project: those of every
\* project from position k on.
IssuedAt_AllProjects(data, k) ==
    UNION {CallsOf(data[j]) : j \in k..Len(data)}

\* The calls the loop issues when it reaches position k.
IssuedAt(data, k) == IF k > Len(data) THEN {} ELSE CallsOf(data[k])

\* What fetchLatestVersion may return for a name: null without any request
\* for a blank name; else nondeterministically null (network failure,
\* non-success status, no version field) or the registry's latest version.
FetchOutcomes(name) ==
    IF Trim(name) = <<>> THEN {Null}
    ELSE IF RegistryKnows(name) THEN {Null, RegistryLatest(name)}
    ELSE {Null}

\* The updater, had it not tested the index: every dependency of the
\* project takes the result.
ApplyResult_AllOfProject(prev, call, latestVersion) ==
    LET hasUpdate == IF Truthy(latestVersion)
                     THEN compareVersions(call.currentVersion, latestVersion)
                     ELSE FALSE
    IN  [p \in 1..Len(prev) |->
            IF prev[p].filePath = call.filePath
            THEN [prev[p] EXCEPT !.dependencies =
                    [i \in 1..Len(prev[p].dependencies) |->
                        [prev[p].dependencies[i] EXCEPT
                            !.latestVersion = latestVersion,
                            !.hasUpdate = hasUpdate,
                            !.loading = FALSE]]]
            ELSE prev[p]]

\* The updater passed to setProjects when a call settles.
ApplyResult(prev, call, latestVersion) ==
    LET hasUpdate == IF Truthy(latestVersion)
                     THEN compareVersions(call.currentVersion, latestVersion)
                     ELSE FALSE
    IN  [p \in 1..Len(prev) |->
            IF prev[p].filePath = call.filePath
            THEN [prev[p] EXCEPT !.dependencies =
                    [i \in 1..Len(prev[p].dependencies) |->
                        IF i - 1 = call.index
                        THEN [prev[p].dependencies[i] EXCEPT
                                !.latestVersion = latestVersion,
                                !.hasUpdate = hasUpdate,
                                !.loading = FALSE]
                        ELSE prev[p].dependencies[i]]]
            ELSE prev[p]]

\* ------------------------------------------------ Selection State Machine
Mounted == exitedBy = "none"

safeSelectedProjectIndex ==
    Min(selectedProjectIndex, Max(0, Len(projects) - 1))

\* projects[i] for a 0-based i is defined only inside the array.
HasProjectAt(i) == 0 <= i /\ i < Len(projects)

HasCurrentProject == HasProjectAt(safeSelectedProjectIndex)

currentProject == projects[safeSelectedProjectIndex + 1]

safeSelectedDepIndex ==
    IF HasCurrentProject
    THEN Min(selectedDepIndex, Max(0, Len(currentProject.dependencies) - 1))
    ELSE 0

\* exit(): the first call unmounts the application.
Exit(cause) == IF exitedBy = "none" THEN cause ELSE exitedBy

InitIn(W) ==
    /\ manifests \in W
    /\ disk = [i \in 1..Len(manifests) |-> ManifestText(manifests[i])]
    /\ projects = <<>>
    /\ selectedProjectIndex = 0
    /\ selectedDepIndex = 0
    /\ mode = "project"
    /\ loading = TRUE
    /\ fetchPos = 0
    /\ inflight = {}
    /\ updates = <<>>
    /\ exitedBy = "none"
    /\ handlerProjects = <<>>
    /\ lastEvent = "start"

Init == InitIn(Workspaces)

\* loadProjects, up to the first await of fetchVersionsForAllProjects.
LoadProjects ==
    /\ Mounted
    /\ loading
    /\ LET projectsData == ProjectsData(manifests)
           k == NextFetchPos(projectsData, 1)
       IN  /\ projects' = projectsData
           /\ fetchPos' = k
           /\ inflight' = IssuedAt(projectsData, k)
    /\ loading' = FALSE
    /\ lastEvent' = "load"
    /\ UNCHANGED <<manifests, disk, selectedProjectIndex, selectedDepIndex,
                   mode, updates, exitedBy>>
    /\ handlerProjects' = projects'

\* A call settles, had fetchLatestVersion raised on failure: the callback
\* stops before setProjects, Promise.all rejects and the loop is left.
SettleOne_FailureRaises ==
    \E call \in inflight :
    \E latestVersion \in FetchOutcomes(call.name) :
       IF latestVersion = Null
       THEN /\ UNCHANGED projects
            /\ fetchPos' = Len(projects) + 1
            /\ inflight' = inflight \ {call}
       ELSE /\ projects' = ApplyResult(projects, call, latestVersion)
            /\ IF inflight = {call}
               THEN LET data == ProjectsData(manifests)
                        k == NextFetchPos(data, fetchPos + 1)
                    IN  /\ fetchPos' = k
                        /\ inflight' = IssuedAt(data, k)
               ELSE /\ fetchPos' = fetchPos
                    /\ inflight' = inflight \ {call}

\* One fetchLatestVersion call settles and its result is applied; when it
\* is the last of its project, Promise.all resolves and the loop issues the
\* calls of the next project.  (After unmount React drops the update.)
SettleOne ==
    \E call \in inflight :
    \E latestVersion \in FetchOutcomes(call.name) :
       /\ projects' = ApplyResult(projects, call, latestVersion)
       /\ IF inflight = {call}
          THEN LET data == ProjectsData(manifests)
                   k == NextFetchPos(data, fetchPos + 1)
               IN  /\ fetchPos' = k
                   /\ inflight' = IssuedAt(data, k)
          ELSE /\ fetchPos' = fetchPos
               /\ inflight' = inflight \ {call}

\* A call settles, the application renders and the effect that subscribes
\* the input handler of the new render runs, before the next event.
FetchDone ==
    /\ Mounted
    /\ SettleOne
    /\ lastEvent' = "fetch"
    /\ UNCHANGED <<manifests, disk, selectedProjectIndex, selectedDepIndex,
                   mode, loading, updates, exitedBy>>
    /\ handlerProjects' = projects'

\* A call settles and the next event arrives before the effect has run:
\* the handler subscribed is still the one of the render before.
FetchSettles ==
    /\ Mounted
    /\ SettleOne
    /\ lastEvent' = "fetch"
    /\ UNCHANGED <<manifests, disk, selectedProjectIndex, selectedDepIndex,
                   mode, loading, updates, exitedBy, handlerProjects>>

\* The effect runs: the handler of the latest render is subscribed.
FlushEffects ==
    /\ Mounted
    /\ handlerProjects # projects
    /\ handlerProjects' = projects
    /\ lastEvent' = "effect"
    /\ UNCHANGED <<manifests, disk, projects, selectedProjectIndex,
                   selectedDepIndex, mode, loading, fetchPos, inflight,
                   updates, exitedBy>>

\* handleNavigation("up") / handleNavigation("down")
NavigatedProjectIndex(direction) ==
    IF direction = "up"
    THEN Max(0, selectedProjectIndex - 1)
    ELSE Min(Len(projects) - 1, selectedProjectIndex + 1)

NavigatedDepIndex(direction) ==
    IF direction = "up"
    THEN Max(0, selectedDepIndex - 1)
    ELSE Min(Len(currentProject.dependencies) - 1, selectedDepIndex + 1)

handleNavigation(direction) ==
    IF mode = "project"
    THEN /\ selectedProjectIndex' = NavigatedProjectIndex(direction)
         /\ UNCHANGED selectedDepIndex
    ELSE IF mode = "dependencies" /\ HasCurrentProject
    THEN /\ selectedDepIndex' = NavigatedDepIndex(direction)
         /\ UNCHANGED selectedProjectIndex
    ELSE UNCHANGED <<selectedProjectIndex, selectedDepIndex>>

\* The dependency toggleDependencySelection flips, as a 0-based index, or
\* -1 when targetProject or targetDep is undefined.  (No event changes the
\* number of projects or of dependencies after the load, so the render's
\* list and the handler's give the same target.)
ToggleTarget ==
    IF /\ HasCurrentProject
       /\ 0 <= safeSelectedDepIndex
       /\ safeSelectedDepIndex < Len(currentProject.dependencies)
    THEN safeSelectedDepIndex
    ELSE -1

\* The toggle, had it also moved the selected dependencies of the project
\* to the front.
toggleDependencySelection_SelectedFirst ==
    IF ToggleTarget # -1
    THEN LET c == safeSelectedProjectIndex + 1
             deps == [handlerProjects[c].dependencies EXCEPT
                         ![ToggleTarget + 1].selected = ~@]
         IN  projects' =
                [handlerProjects EXCEPT ![c].dependencies =
                    SelectSeq(deps, LAMBDA d : d.selected)
                        \o SelectSeq(deps, LAMBDA d : ~d.selected)]
    ELSE UNCHANGED projects

\* setProjects(newProjects) is not a functional update: newProjects is a
\* copy of the `projects` of the render the handler was created in.
toggleDependencySelection ==
    IF ToggleTarget # -1
    THEN projects' =
            [handlerProjects EXCEPT
                ![safeSelectedProjectIndex + 1].dependencies[ToggleTarget + 1].selected
                    = ~@]
    ELSE UNCHANGED projects

\* selectedProject.dependencies.filter((dep) => dep.selected)
SelectedDeps(project) == SelectSeq(project.dependencies, LAMBDA d : d.selected)

\* The mode the left arrow sets.
BackMode == IF mode = "dependencies" THEN "project" ELSE "dependencies"

\* q or Esc
KeyQuit ==
    /\ Mounted
    /\ exitedBy' = Exit("quit")
    /\ lastEvent' = "quit"
    /\ UNCHANGED <<manifests, disk, projects, selectedProjectIndex,
                   selectedDepIndex, mode, loading, fetchPos, inflight, updates>>
    /\ handlerProjects' = projects'

KeyUp ==
    /\ Mounted
    /\ handleNavigation("up")
    /\ lastEvent' = "up"
    /\ UNCHANGED <<manifests, disk, projects, mode, loading, fetchPos,
                   inflight, updates, exitedBy>>
    /\ handlerProjects' = projects'

KeyDown ==
    /\ Mounted
    /\ handleNavigation("down")
    /\ lastEvent' = "down"
    /\ UNCHANGED <<manifests, disk, projects, mode, loading, fetchPos,
                   inflight, updates, exitedBy>>
    /\ handlerProjects' = projects'

\* Enter, had the handler not reset the dependency cursor.
KeyReturn_NoReset ==
    /\ Mounted
    /\ IF mode = "project" /\ HasProjectAt(safeSelectedProjectIndex)
       THEN mode' = "dependencies" /\ UNCHANGED selectedDepIndex
       ELSE IF mode = "dependencies"
       THEN mode' = "confirm" /\ UNCHANGED selectedDepIndex
       ELSE UNCHANGED <<mode, selectedDepIndex>>
    /\ lastEvent' = "return"
    /\ UNCHANGED <<manifests, disk, projects, selectedProjectIndex, loading,
                   fetchPos, inflight, updates, exitedBy>>
    /\ handlerProjects' = projects'

\* Enter
KeyReturn ==
    /\ Mounted
    /\ IF mode = "project" /\ HasProjectAt(safeSelectedProjectIndex)
       THEN mode' = "dependencies" /\ selectedDepIndex' = 0
       ELSE IF mode = "dependencies"
       THEN mode' = "confirm" /\ UNCHANGED selectedDepIndex
       ELSE UNCHANGED <<mode, selectedDepIndex>>
    /\ lastEvent' = "return"
    /\ UNCHANGED <<manifests, disk, projects, selectedProjectIndex, loading,
                   fetchPos, inflight, updates, exitedBy>>
    /\ handlerProjects' = projects'

\* Space
KeySpace ==
    /\ Mounted
    /\ IF mode = "dependencies"
       THEN toggleDependencySelection
       ELSE UNCHANGED projects
    /\ lastEvent' = "space"
    /\ UNCHANGED <<manifests, disk, selectedProjectIndex, selectedDepIndex,
                   mode, loading, fetchPos, inflight, updates, exitedBy>>
    /\ handlerProjects' = projects'

\* The left arrow, had it put the project cursor back on the first project.
KeyLeft_ResetsProjectCursor ==
    /\ Mounted
    /\ mode' = BackMode
    /\ selectedProjectIndex' = 0
    /\ lastEvent' = "left"
    /\ UNCHANGED <<manifests, disk, projects, selectedDepIndex, loading,
                   fetchPos, inflight, updates, exitedBy>>
    /\ handlerProjects' = projects'

\* Left arrow
KeyLeft ==
    /\ Mounted
    /\ mode' = BackMode
    /\ lastEvent' = "left"
    /\ UNCHANGED <<manifests, disk, projects, selectedProjectIndex,
                   selectedDepIndex, loading, fetchPos, inflight, updates,
                   exitedBy>>
    /\ handlerProjects' = projects'

\* n, had it gone back to the project list.
KeyN_ToProject ==
    /\ Mounted
    /\ IF mode = "confirm" THEN mode' = "project" ELSE UNCHANGED mode
    /\ lastEvent' = "n"
    /\ UNCHANGED <<manifests, disk, projects, selectedProjectIndex,
                   selectedDepIndex, loading, fetchPos, inflight, updates,
                   exitedBy>>
    /\ handlerProjects' = projects'

\* n
KeyN ==
    /\ Mounted
    /\ IF mode = "confirm" THEN mode' = "dependencies" ELSE UNCHANGED mode
    /\ lastEvent' = "n"
    /\ UNCHANGED <<manifests, disk, projects, selectedProjectIndex,
                   selectedDepIndex, loading, fetchPos, inflight, updates,
                   exitedBy>>
    /\ handlerProjects' = projects'

\* ------------------------------------------------------ updateDependencies
\* The invocation that is suspended at `await Bun.file(...).text()`: it
\* holds the project and the selectedDeps of the render it was called in.
\* An invocation that has returned holds nothing any more.
Returned(u, stage) ==
    [filePath |-> u.filePath, selectedDeps |-> <<>>, stage |-> stage,
     content |-> <<>>, updatedContent |-> <<>>]

\* The invocation, had it also taken the selected dependencies of the first
\* project of the list.
NewUpdate_WithFirstProject(project) ==
    [filePath |-> project.filePath,
     selectedDeps |-> SelectedDeps(project) \o SelectedDeps(projects[1]),
     stage |-> "read",
     content |-> <<>>,
     updatedContent |-> <<>>]

\* What an invocation of updateDependencies holds up to its first await.
NewUpdate(project) ==
    [filePath |-> project.filePath,
     selectedDeps |-> SelectedDeps(project),
     stage |-> "read",
     content |-> <<>>,
     updatedContent |-> <<>>]

\* updateDependencies, had it not short-circuited an empty selection.
updateDependencies_NoShortCircuit ==
    IF ~HasProjectAt(safeSelectedProjectIndex)
    THEN UNCHANGED <<mode, updates>>
    ELSE /\ updates' = Append(updates, NewUpdate(currentProject))
         /\ UNCHANGED mode

\* updateDependencies up to its first await.
updateDependencies ==
    IF ~HasProjectAt(safeSelectedProjectIndex)
    THEN UNCHANGED <<mode, updates>>
    ELSE IF SelectedDeps(currentProject) = <<>>
    THEN mode' = "dependencies" /\ UNCHANGED updates
    ELSE /\ updates' = Append(updates, NewUpdate(currentProject))
         /\ UNCHANGED mode

\* r: no branch of the handler takes it, in any mode.  (It changes nothing
\* the session holds; NavSpec takes it.)
KeyR ==
    /\ Mounted
    /\ lastEvent' = "r"
    /\ UNCHANGED <<manifests, disk, projects, selectedProjectIndex,
                   selectedDepIndex, mode, loading, fetchPos, inflight,
                   updates, exitedBy>>
    /\ handlerProjects' = projects'

\* a: no branch of the handler takes it, in any mode.
KeyA ==
    /\ Mounted
    /\ lastEvent' = "a"
    /\ UNCHANGED <<manifests, disk, projects, selectedProjectIndex,
                   selectedDepIndex, mode, loading, fetchPos, inflight,
                   updates, exitedBy>>
    /\ handlerProjects' = projects'

\* y.  (The guard on Len(updates) bounds the model only.)
KeyY ==
    /\ Mounted
    /\ Len(updates) < MaxAccepts
    /\ IF mode = "confirm"
       THEN updateDependencies
       ELSE UNCHANGED <<mode, updates>>
    /\ lastEvent' = "y"
    /\ UNCHANGED <<manifests, disk, projects, selectedProjectIndex,
                   selectedDepIndex, loading, fetchPos, inflight, exitedBy>>
    /\ handlerProjects' = projects'

\* The index in manifests (and disk) of the file at a path.
FileIndex(path) == CHOOSE i \in 1..Len(manifests) : manifests[i].path = path

\* The read settles: the loop over selectedDeps computes updatedContent and
\* Bun.write is called with it.
ReadDone ==
    /\ \E u \in 1..Len(updates) :
          /\ updates[u].stage = "read"
          /\ LET content == disk[FileIndex(updates[u].filePath)]
             IN  updates' =
                    [updates EXCEPT
                        ![u].stage = "write",
                        ![u].content = content,
                        ![u].updatedContent =
                            RewriteAll(content, updates[u].selectedDeps)]
    /\ lastEvent' = "read"
    /\ UNCHANGED <<manifests, disk, projects, selectedProjectIndex,
                   selectedDepIndex, mode, loading, fetchPos, inflight,
                   exitedBy>>
    /\ handlerProjects' = projects'

\* The read throws: the catch block reports and calls exit().
ReadFail ==
    /\ \E u \in 1..Len(updates) :
          /\ updates[u].stage = "read"
          /\ updates' = [updates EXCEPT ![u] = Returned(@, "readfailed")]
    /\ exitedBy' = Exit("error")
    /\ lastEvent' = "readfail"
    /\ UNCHANGED <<manifests, disk, projects, selectedProjectIndex,
                   selectedDepIndex, mode, loading, fetchPos, inflight>>
    /\ handlerProjects' = projects'

\* The write settles: the file holds updatedContent, the result is logged
\* and exit() is called.
WriteDone ==
    /\ \E u \in 1..Len(updates) :
          /\ updates[u].stage = "write"
          /\ disk' = [disk EXCEPT ![FileIndex(updates[u].filePath)] =
                                     updates[u].updatedContent]
          /\ updates' = [updates EXCEPT ![u] = Returned(@, "done")]
    /\ exitedBy' = Exit("update")
    /\ lastEvent' = "written"
    /\ UNCHANGED <<manifests, projects, selectedProjectIndex,
                   selectedDepIndex, mode, loading, fetchPos, inflight>>
    /\ handlerProjects' = projects'

\* The write throws: the catch block reports and calls exit().
WriteFail ==
    /\ \E u \in 1..Len(updates) :
          /\ updates[u].stage = "write"
          /\ updates' = [updates EXCEPT ![u] = Returned(@, "writefailed")]
    /\ exitedBy' = Exit("error")
    /\ lastEvent' = "writefail"
    /\ UNCHANGED <<manifests, disk, projects, selectedProjectIndex,
                   selectedDepIndex, mode, loading, fetchPos, inflight>>
    /\ handlerProjects' = projects'

Next ==
    \/ LoadProjects
    \/ FetchDone
    \/ KeyQuit
    \/ KeyUp
    \/ KeyDown
    \/ KeyReturn
    \/ KeySpace
    \/ KeyLeft
    \/ KeyN
    \/ KeyY
    \/ ReadDone
    \/ ReadFail
    \/ WriteDone
    \/ WriteFail

Spec == Init /\ [][Next]_vars

\* The sessions in which no update is started, in a workspace whose
\* projects differ in their number of dependencies: y is pressed only where
\* updateDependencies returns before its first await.  (Where it does not
\* return, y changes none of projects, mode and the cursors, and what
\* follows it can only end the session.)
NavInit == InitIn(NavWorkspaces)

KeyYNoUpdate ==
    /\ ~(/\ mode = "confirm"
         /\ HasProjectAt(safeSelectedProjectIndex)
         /\ SelectedDeps(currentProject) # <<>>)
    /\ KeyY

NavNext ==
    \/ LoadProjects
    \/ FetchDone
    \/ KeyQuit
    \/ KeyUp
    \/ KeyDown
    \/ KeyReturn
    \/ KeySpace
    \/ KeyLeft
    \/ KeyN
    \/ KeyR
    \/ KeyA
    \/ KeyYNoUpdate

NavSpec == NavInit /\ [][NavNext]_vars

\* The sessions of the Constraint Rewriter: one project, the operator moves
\* forward only (browse, toggle, continue, accept) and the file is read and
\* written without failure.
RewriteInit == InitIn(RewriteWorkspaces)

RewriteNext ==
    \/ LoadProjects
    \/ FetchDone
    \/ KeyDown
    \/ KeyReturn
    \/ KeySpace
    \/ KeyY
    \/ ReadDone
    \/ WriteDone

RewriteSpec == RewriteInit /\ [][RewriteNext]_vars

\* The same sessions in the workspace of the example.
ExampleInit == InitIn(ExampleWorkspaces)

ExampleSpec == ExampleInit /\ [][RewriteNext]_vars

\* The sessions of the Specifier Parser and the Version Classifier: the
\* manifest is loaded and its declaration resolved.
ParseInit == InitIn(ParseWorkspaces)

ParseNext ==
    \/ LoadProjects
    \/ FetchDone

ParseSpec == ParseInit /\ [][ParseNext]_vars

\* The sessions of the classification of a change.
ClassifyInit == InitIn(ClassifyWorkspaces)

ClassifySpec == ClassifyInit /\ [][ParseNext]_vars

\* The sessions in which a key may arrive between the render a settled call
\* causes and the effect that subscribes the handler of that render.
RaceInit == InitIn(NavWorkspaces)

RaceNext ==
    \/ LoadProjects
    \/ FetchSettles
    \/ FlushEffects
    \/ KeyUp
    \/ KeyDown
    \/ KeyReturn
    \/ KeySpace
    \/ KeyLeft
    \/ KeyN
    \/ KeyR
    \/ KeyA
    \/ KeyYNoUpdate
    \/ KeyQuit

RaceSpec == RaceInit /\ [][RaceNext]_vars

\* The sessions of two projects that declare one package by the same text.
CrossInit == InitIn({<<ManifestA, ManifestC>>})

CrossNext ==
    \/ RewriteNext
    \/ KeyLeft

CrossSpec == CrossInit /\ [][CrossNext]_vars

\* The sessions in which resolution is followed to its end: the steps the
\* runtime takes by itself (the load, a call settling, a pending effect)
\* are taken when they can be; no key is ever bound to be pressed.
SettleInit == InitIn({<<ManifestP, ManifestQ>>})

SettleNext ==
    \/ LoadProjects
    \/ FetchSettles
    \/ FlushEffects
    \/ KeyDown
    \/ KeyReturn
    \/ KeySpace
    \/ KeyQuit

\* Weak fairness of an action A that is enabled exactly when the state
\* predicate holds, written out: WF_vars(A) with ENABLED <<A>>_vars stated.
\* The load changes `loading` and a settling call changes `inflight`, so
\* each is enabled, as a step that changes the state, exactly when its
\* guard holds.
LoadProjectsFair ==
    []<>~(Mounted /\ loading) \/ []<><<LoadProjects>>_vars

FetchSettlesFair ==
    []<>~(Mounted /\ inflight # {}) \/ []<><<FetchSettles>>_vars

SettleSpec ==
    /\ SettleInit
    /\ [][SettleNext]_vars
    /\ LoadProjectsFair
    /\ FetchSettlesFair
    /\ WF_vars(FlushEffects)

\* ================================================================ claims
\* Bun.write has been called by these invocations of updateDependencies.
WriteCalls == {u \in 1..Len(updates) :
                 updates[u].stage \in {"write", "done", "writefailed"}}

WriteCount == Cardinality(WriteCalls)

\* The dependencies of the project at the stored project cursor.
DepsAtCursor == projects[selectedProjectIndex + 1].dependencies

\* The selected flags of every dependency of every project.
SelectedFlags ==
    [p \in 1..Len(projects) |->
        [i \in 1..Len(projects[p].dependencies) |->
            projects[p].dependencies[i].selected]]

\* C1: after any sequence of up/down events, in ProjectSelect the project
\* cursor and in DependencySelect the dependency cursor is never below 0 and
\* never beyond the last element of its collection (0 for an empty or a
\* one-element collection).
C1_CursorsStayInRange ==
    /\ mode = "project" =>
          /\ 0 <= selectedProjectIndex
          /\ selectedProjectIndex <= Max(0, Len(projects) - 1)
    /\ (mode = "dependencies" /\ HasProjectAt(selectedProjectIndex)) =>
          /\ 0 <= selectedDepIndex
          /\ selectedDepIndex <= Max(0, Len(DepsAtCursor) - 1)

\* C2: in every state with mode DependencySelect or Confirm, the stored
\* dependency cursor does not point past the end of the dependency list of
\* the project at the project cursor.
C2_DepCursorWithinList ==
    (mode \in {"dependencies", "confirm"} /\ HasProjectAt(selectedProjectIndex)) =>
        selectedDepIndex <= Max(0, Len(DepsAtCursor) - 1)

C3_AcceptStep ==
    (mode = "confirm" /\ lastEvent' = "y") =>
        /\ exitedBy' = exitedBy
        /\ disk' = disk
        /\ IF ~HasProjectAt(selectedProjectIndex)
           THEN updates' = updates /\ mode' = "confirm"
           ELSE IF \A i \in 1..Len(DepsAtCursor) : ~DepsAtCursor[i].selected
           THEN updates' = updates /\ mode' = "dependencies"
           ELSE /\ Len(updates') = Len(updates) + 1
                /\ SubSeq(updates', 1, Len(updates)) = updates
                /\ updates'[Len(updates')].stage = "read"
                /\ updates'[Len(updates')].filePath =
                      projects[selectedProjectIndex + 1].filePath
                /\ mode' = "confirm"

C3_ReturnEndsSession ==
    \A u \in 1..Len(updates') :
        updates'[u].stage \in {"done", "readfailed", "writefailed"} =>
            exitedBy' # "none"

C4_AtMostOneWrite == WriteCount <= 1

\* C5: once the quit key has ended the session, no manifest write is
\* started.
C5_NoWriteAfterQuit ==
    [][exitedBy = "quit" => WriteCount' = WriteCount]_vars

\* C6: in ProjectSelect, Enter moves to DependencySelect with the dependency
\* cursor at 0 when a project exists at the project cursor, and leaves the
\* mode ProjectSelect when none does.
C6_EnterStep ==
    (mode = "project" /\ lastEvent' = "return") =>
        IF HasProjectAt(selectedProjectIndex)
        THEN mode' = "dependencies" /\ selectedDepIndex' = 0
        ELSE mode' = "project"

C6_EnterOpensProject == [][C6_EnterStep]_vars

\* C6 witness: Enter has opened the second project after a visit of the
\* first, in which a dependency was selected.
C6_Witness ==
    /\ lastEvent = "return"
    /\ mode = "dependencies"
    /\ selectedProjectIndex = 1
    /\ selectedDepIndex = 0
    /\ \E i \in 1..Len(projects[1].dependencies) :
          projects[1].dependencies[i].selected

\* C7: the toggle key flips `selected` of exactly the specifier at the
\* dependency cursor of the project at the project cursor, and `selected`
\* changes in DependencySelect only.
C7_ToggleStep ==
    /\ (Len(projects') = Len(projects) /\ SelectedFlags' # SelectedFlags) =>
          mode = "dependencies"
    /\ (mode = "dependencies" /\ lastEvent' = "space"
          /\ HasProjectAt(selectedProjectIndex)) =>
          \A p \in 1..Len(projects) : \A i \in 1..Len(projects[p].dependencies) :
             SelectedFlags'[p][i] =
                IF p = selectedProjectIndex + 1 /\ i = selectedDepIndex + 1
                THEN ~SelectedFlags[p][i]
                ELSE SelectedFlags[p][i]

C7_ToggleFlipsCursorOnly == [][C7_ToggleStep]_vars

\* ------------------------------------------------- Constraint Rewriter
\* The quoted string literals of a manifest text, in order, each with the
\* quote character that wraps it.
RECURSIVE ItemsFrom(_, _)
ItemsFrom(text, i) ==
    IF i > Len(text) THEN <<>>
    ELSE IF text[i] \in {DQ, SQ}
    THEN LET j == IndexFrom(text, text[i], i + 1)
         IN  IF j = 0 THEN <<>>
             ELSE <<Item(text[i], SubSeq(text, i + 1, j - 1))>>
                  \o ItemsFrom(text, j + 1)
    ELSE ItemsFrom(text, i + 1)

ItemsOf(text) == ItemsFrom(text, 1)

\* The invocations of updateDependencies that have computed the rewritten
\* text and not yet returned.
Rewritten == {u \in 1..Len(updates) : updates[u].stage = "write"}

\* The dependencies, as the session holds them, of the project whose file an
\* invocation rewrites.
DepsOfFile(path) ==
    LET p == CHOOSE p \in 1..Len(projects) : projects[p].filePath = path
    IN  projects[p].dependencies

\* Among deps, the number of selected ones up to position i: the position in
\* the selected sequence of a selected dependency at i.
Rank(deps, i) == Cardinality({j \in 1..i : deps[j].selected})

\* The operator the claim prescribes for an original operator.
PrescribedOperator(op) ==
    CASE op = <<"=", "=">> -> <<"=", "=">>
      [] op = <<"~", "=">> -> <<"~", "=">>
      [] op \in {<<">", "=">>, <<">">>, <<"<">>, <<"<", "=">>, <<"!", "=">>}
            -> <<"~", "=">>
      [] OTHER -> <<"?">>

\* The operator written in a declaration, none for a bare name.
WrittenOperator(decl) ==
    LET head == IF IndexOf(decl, ";") = 0 THEN decl
                ELSE SubSeq(decl, 1, IndexOf(decl, ";") - 1)
        ops  == SelectSeq(head, IsOpChar)
    IN  ops

\* The replacement text the claim prescribes for a declaration d:
\* name + extras + operator + latestVersion + (";" + marker when present).
PrescribedText(d) ==
    LET k  == IndexOf(d.originalConstraint, ";")
        op == IF WrittenOperator(d.originalConstraint) = <<>>
              THEN <<"~", "=">>
              ELSE PrescribedOperator(WrittenOperator(d.originalConstraint))
    IN  d.name \o d.extras \o op \o d.latestVersion
        \o (IF k = 0 THEN <<>>
            ELSE SubSeq(d.originalConstraint, k, Len(d.originalConstraint)))

\* The selected dependencies with an update, in an invocation's snapshot,
\* that were declared by the text s.
UpdatesFor(u, s) ==
    {k \in 1..Len(updates[u].selectedDeps) :
        /\ updates[u].selectedDeps[k].hasUpdate
        /\ updates[u].selectedDeps[k].originalConstraint = s}

\* C8: a declaration that is not selected, or is selected and has no
\* update, stands byte for byte unchanged in the text handed to the write.
C8_OthersUnchanged ==
    \A u \in Rewritten :
        LET deps == DepsOfFile(updates[u].filePath)
            old  == ItemsOf(updates[u].content)
            new  == ItemsOf(updates[u].updatedContent)
        IN  /\ Len(new) = Len(old)
            /\ Len(old) = Len(deps)
            /\ \A i \in 1..Len(deps) :
                  (\/ ~deps[i].selected
                   \/ ~updates[u].selectedDeps[Rank(deps, i)].hasUpdate)
                  => new[i] = old[i]

C10_QuoteStyleRespected ==
    \A u \in Rewritten :
        LET old == ItemsOf(updates[u].content)
            new == ItemsOf(updates[u].updatedContent)
        IN  /\ Len(new) = Len(old)
            /\ \A i \in 1..Len(old) :
                  UpdatesFor(u, old[i].s) # {} =>
                     /\ new[i].q = old[i].q
                     /\ new[i].s # old[i].s

\* ------------------------------------------------------ Specifier Parser
\* A declaration without operator and version: no operator character in
\* its text before the marker.
LacksConstraint(decl) ==
    LET k == IndexOf(decl, ";")
        head == IF k = 0 THEN decl ELSE SubSeq(decl, 1, k - 1)
    IN  \A i \in 1..Len(head) : ~IsOpChar(head[i])

\* C20: parse gives one specifier for every declared string, in order, and
\* for a declaration without operator and version the specifier has
\* currentVersion "0.0.0" and constraintOperator ">=".
C20_ParseDefaults ==
    \A p \in 1..Len(projects) :
        LET items == manifests[FileIndex(projects[p].filePath)].items
            deps  == projects[p].dependencies
        IN  /\ Len(deps) = Len(items)
            /\ \A i \in 1..Len(deps) :
                  /\ deps[i].originalConstraint = items[i].s
                  /\ LacksConstraint(items[i].s) =>
                        /\ deps[i].currentVersion = <<"0", ".", "0", ".", "0">>
                        /\ deps[i].constraintOperator = <<">", "=">>

\* C20 witness: a name with extras and a marker, and nothing else, has been
\* parsed.
C20_Witness ==
    /\ Len(projects) = 1
    /\ projects[1].dependencies[1].originalConstraint =
          <<"a", "b", "[", "x", "]", ";", "m">>
    /\ projects[1].dependencies[1].extras = <<"[", "x", "]">>
    /\ projects[1].dependencies[1].currentVersion = <<"0", ".", "0", ".", "0">>

\* --------------------------------------------------- Version Classifier
\* Every dependency the session holds.
AllDeps ==
    UNION {{projects[p].dependencies[i] :
                i \in 1..Len(projects[p].dependencies)} :
           p \in 1..Len(projects)}

Resolved(d) == d.latestVersion # Undefined /\ d.latestVersion # Null

\* Both are versions with a precedence, and latest comes strictly after
\* current.
StrictlyGreater(latest, current) ==
    /\ SemverValid(current)
    /\ SemverValid(latest)
    /\ SemverOrder(current, latest) = -1

\* C13 as claimed: hasUpdate is true exactly when latestVersion is resolved
\* and strictly greater than currentVersion.
C13_HasUpdateIffNewer ==
    \A d \in AllDeps :
        d.hasUpdate <=>
            (Resolved(d) /\ StrictlyGreater(d.latestVersion, d.currentVersion))

\* C13 as amended: hasUpdate is true exactly when latestVersion is resolved
\* and either both versions have a precedence and latestVersion comes
\* strictly after currentVersion, or one of them has none and the text of
\* currentVersion (operator characters and outer spaces removed) differs
\* from latestVersion.
C13_HasUpdateIffNewerOrIncomparable ==
    \A d \in AllDeps :
        LET clean == Trim(SelectSeq(d.currentVersion, LAMBDA c : ~IsOpChar(c)))
        IN  d.hasUpdate <=>
               /\ Resolved(d)
               /\ IF SemverValid(clean) /\ SemverValid(d.latestVersion)
                  THEN StrictlyGreater(d.latestVersion, clean)
                  ELSE clean # d.latestVersion

\* C13 witness: a resolved dependency pinned above the latest version, with
\* no update, and so resolved after the fetch.
C13_Witness ==
    \E d \in AllDeps :
        /\ d.currentVersion = <<"2", ".", "0", ".", "0">>
        /\ d.latestVersion = <<"1", ".", "1", ".", "0">>
        /\ ~d.hasUpdate
        /\ ~d.loading

\* ------------------------------------------------ non-registry specifiers
\* A declaration that is not a plain version constraint: it holds "://".
IsNonRegistry(decl) ==
    \E i \in 1..Len(decl) : MatchesAt(decl, <<":", "/", "/">>, i)

\* The declaration a pending fetchLatestVersion call was issued for.
DeclarationOf(call) ==
    DepsOfFile(call.filePath)[call.index + 1].originalConstraint

\* C11: for a declaration that is not a plain version constraint no request
\* to the registry is ever pending, its hasUpdate is false, and the text
\* handed to the write holds it unchanged.
C11_NonRegistrySkipped ==
    /\ \A call \in inflight :
          IsNonRegistry(DeclarationOf(call)) => Trim(call.name) = <<>>
    /\ \A d \in AllDeps : IsNonRegistry(d.originalConstraint) => ~d.hasUpdate
    /\ \A u \in Rewritten :
          LET old == ItemsOf(updates[u].content)
              new == ItemsOf(updates[u].updatedContent)
          IN  /\ Len(new) = Len(old)
              /\ \A i \in 1..Len(old) :
                    IsNonRegistry(old[i].s) => new[i] = old[i]

\* --------------------------------------------------------- manual refresh
\* C12: r in DependencySelect resets loading to true and latestVersion to
\* undefined for every dependency of the project viewed, issues the
\* resolution calls of that project again, and leaves the dependencies of
\* every other project as they are.
C12_RefreshStep ==
    (mode = "dependencies" /\ lastEvent' = "r"
        /\ HasProjectAt(safeSelectedProjectIndex)) =>
        LET c == safeSelectedProjectIndex + 1
        IN  /\ Len(projects') = Len(projects)
            /\ \A i \in 1..Len(projects'[c].dependencies) :
                  /\ projects'[c].dependencies[i].loading
                  /\ projects'[c].dependencies[i].latestVersion = Undefined
            /\ CallsOf(projects[c]) \subseteq inflight'
            /\ \A p \in 1..Len(projects) :
                  p # c => projects'[p] = projects[p]

C12_RefreshResetsProject == [][C12_RefreshStep]_vars

\* ------------------------------------------------------------ end to end
\* The three declarations of the example, all selected and resolved to the
\* registry's answers 0.109.2, 2.6.1 and 2.31.0, in an invocation.
ExampleAccepted(u) ==
    /\ ItemsOf(updates[u].content) =
          <<Item(DQ, fastapiGe), Item(DQ, pydanticCompat), Item(DQ, requestsEq)>>
    /\ Len(updates[u].selectedDeps) = 3
    /\ \A k \in 1..3 :
          updates[u].selectedDeps[k].latestVersion =
             RegistryLatest(updates[u].selectedDeps[k].name)

ExampleRewritten ==
    <<Item(DQ, <<"f", "a", "s", "t", "a", "p", "i", "~", "=", "0", ".", "1", "0", "9", ".", "2">>),
      Item(DQ, <<"p", "y", "d", "a", "n", "t", "i", "c", "~", "=", "2", ".", "6", ".", "1">>),
      Item(DQ, requestsEq)>>

\* C14: with fastapi>=0.104.1, pydantic~=2.5.0 and requests==2.31.0 all
\* selected and resolved to 0.109.2, 2.6.1 and 2.31.0, the text handed to
\* the write holds fastapi~=0.109.2 and pydantic~=2.6.1, and
\* requests==2.31.0 as it was.
C14_ExampleEndToEnd ==
    \A u \in Rewritten :
        ExampleAccepted(u) =>
            ItemsOf(updates[u].updatedContent) = ExampleRewritten

\* C14 witness: the session has ended with the rewritten example on disk.
C14_Witness ==
    /\ exitedBy = "update"
    /\ ItemsOf(disk[1]) = ExampleRewritten

\* --------------------------------------- two declarations of one package
\* In an invocation, is the declaration at position i one of a selected
\* dependency with an update?
UpdatedAt(u, deps, i) ==
    /\ deps[i].selected
    /\ updates[u].selectedDeps[Rank(deps, i)].hasUpdate

\* C15: when two declarations of one package differ in their text and one
\* of them is rewritten for an update, the other, whose text is the
\* originalConstraint of no dependency being updated, is unchanged.
C15_SameNameOtherTextUnchanged ==
    \A u \in Rewritten :
        LET deps == DepsOfFile(updates[u].filePath)
            old  == ItemsOf(updates[u].content)
            new  == ItemsOf(updates[u].updatedContent)
        IN  /\ Len(new) = Len(old)
            /\ \A i, j \in 1..Len(deps) :
                  (/\ i # j
                   /\ deps[i].name = deps[j].name
                   /\ old[i].s # old[j].s
                   /\ UpdatedAt(u, deps, i)
                   /\ UpdatesFor(u, old[j].s) = {})
                  => new[j] = old[j]

\* C15 witness: of ab>=1.0.0 and ab[x]>=1.0.0 only the first was selected;
\* it has been rewritten and the second stands as it was.
C15_Witness ==
    \E u \in Rewritten :
        /\ ItemsOf(updates[u].content) = <<Item(DQ, abGe100), Item(DQ, abExtras)>>
        /\ Len(updates[u].selectedDeps) = 1
        /\ ItemsOf(updates[u].updatedContent)[1] # Item(DQ, abGe100)
        /\ ItemsOf(updates[u].updatedContent)[2] = Item(DQ, abExtras)

\* ------------------------------------------------- extras and markers
\* The parts of a declaration as it is written: its text before the marker,
\* the marker from its ";" on (none when nothing follows the ";"), the text
\* before the first operator character, and the extras in their brackets.
HeadText(decl) ==
    IF IndexOf(decl, ";") = 0 THEN decl
    ELSE SubSeq(decl, 1, IndexOf(decl, ";") - 1)

MarkerText(decl) ==
    LET k == IndexOf(decl, ";")
    IN  IF k = 0 \/ k = Len(decl) THEN <<>> ELSE SubSeq(decl, k, Len(decl))

BeforeOperator(decl) ==
    LET h == HeadText(decl)
        ops == {i \in 1..Len(h) : IsOpChar(h[i])}
    IN  IF ops = {} THEN h
        ELSE SubSeq(h, 1, (CHOOSE i \in ops : \A j \in ops : i <= j) - 1)

ExtrasText(decl) ==
    LET b == BeforeOperator(decl)
        k == IndexOf(b, "[")
    IN  IF k = 0 THEN <<>> ELSE SubSeq(b, k, Len(b))

NameText(decl) ==
    LET b == BeforeOperator(decl)
        k == IndexOf(b, "[")
    IN  IF k = 0 THEN b ELSE SubSeq(b, 1, k - 1)

HasExtrasOrMarker(decl) == ExtrasText(decl) # <<>> \/ MarkerText(decl) # <<>>

\* The rewritten declarations with extras or a marker: the position, and
\* the dependency in the invocation's snapshot it was rewritten for.
RewrittenWithExtrasOrMarker(u) ==
    {<<i, k>> \in (1..Len(ItemsOf(updates[u].content)))
                  \X (1..Len(updates[u].selectedDeps)) :
        /\ k \in UpdatesFor(u, ItemsOf(updates[u].content)[i].s)
        /\ ItemsOf(updates[u].updatedContent)[i]
              # ItemsOf(updates[u].content)[i]
        /\ HasExtrasOrMarker(ItemsOf(updates[u].content)[i].s)}

\* C16 as claimed: a rewritten declaration with extras or a marker differs
\* from the original in the operator and the version only: what stands
\* before the operator and the marker from its ";" on are as they were.
C16_OnlyOperatorAndVersionDiffer ==
    \A u \in Rewritten : \A ik \in RewrittenWithExtrasOrMarker(u) :
        LET old == ItemsOf(updates[u].content)[ik[1]].s
            new == ItemsOf(updates[u].updatedContent)[ik[1]].s
            d   == updates[u].selectedDeps[ik[2]]
        IN  \E op \in ParseOperators :
               new = BeforeOperator(old) \o op \o d.latestVersion
                     \o MarkerText(old)

\* C16 as amended: in a rewritten declaration with extras or a marker, the
\* extras text and the marker text of the original stand unchanged, after
\* the name without its outer spaces and after the new operator and version;
\* spaces around the name and before the marker are not kept.
C16_ExtrasAndMarkerKept ==
    \A u \in Rewritten : \A ik \in RewrittenWithExtrasOrMarker(u) :
        LET old == ItemsOf(updates[u].content)[ik[1]].s
            new == ItemsOf(updates[u].updatedContent)[ik[1]].s
            d   == updates[u].selectedDeps[ik[2]]
        IN  \E op \in ParseOperators :
               new = Trim(NameText(old)) \o ExtrasText(old) \o op
                     \o d.latestVersion \o MarkerText(old)

\* C16 witness: the declaration "ab [x]>=1.0.0 ;m" has been rewritten as
\* "ab[x]~=1.1.0;m".
C16_Witness ==
    \E u \in Rewritten :
        /\ ItemsOf(updates[u].content)[1] = Item(DQ, abSpaced)
        /\ ItemsOf(updates[u].updatedContent)[1] =
              Item(DQ, <<"a", "b", "[", "x", "]", "~", "=",
                         "1", ".", "1", ".", "0", ";", "m">>)

\* ------------------------------------------------------ failed read/write
\* C17: a failed read or write ends the session, and once a failure has
\* ended it no write is attempted and the mode does not change.
C17_FailureStep ==
    /\ lastEvent' \in {"readfail", "writefail"} => exitedBy' # "none"
    /\ exitedBy = "error" => (WriteCount' = WriteCount /\ mode' = mode)

C17_FailureEndsSession == [][C17_FailureStep]_vars

\* ------------------------------------------------------------ going back
\* C18: in Confirm, n and the left arrow both lead to DependencySelect,
\* start no write and change no file, no cursor and no selected flag.
C18_RejectStep ==
    (mode = "confirm" /\ lastEvent' \in {"n", "left"}) =>
        /\ mode' = "dependencies"
        /\ selectedProjectIndex' = selectedProjectIndex
        /\ selectedDepIndex' = selectedDepIndex
        /\ SelectedFlags' = SelectedFlags
        /\ WriteCount' = WriteCount
        /\ disk' = disk

C18_RejectGoesBack == [][C18_RejectStep]_vars

\* C18 witness: after an accept whose read is still pending, n has led
\* back to DependencySelect with the selection in place.
C18_Witness ==
    /\ lastEvent = "n"
    /\ mode = "dependencies"
    /\ Len(updates) = 1
    /\ updates[1].stage = "read"
    /\ \E d \in AllDeps : d.selected

\* C19: in DependencySelect the left arrow leads to ProjectSelect and
\* changes neither the project cursor nor any selected flag, and Enter in
\* ProjectSelect changes no selected flag, so a project entered again shows
\* the selection it was left with.
C19_BackStep ==
    /\ (mode = "dependencies" /\ lastEvent' = "left") =>
          /\ mode' = "project"
          /\ selectedProjectIndex' = selectedProjectIndex
          /\ SelectedFlags' = SelectedFlags
    /\ (mode = "project" /\ lastEvent' = "return") =>
          SelectedFlags' = SelectedFlags

C19_BackKeepsSelection == [][C19_BackStep]_vars

\* C19 witness: the first project has been entered again by Enter and its
\* second dependency is selected as it was left.
C19_Witness ==
    /\ lastEvent = "return"
    /\ mode = "dependencies"
    /\ selectedProjectIndex = 0
    /\ Len(projects) >= 1
    /\ Len(projects[1].dependencies) >= 2
    /\ projects[1].dependencies[2].selected

\* ------------------------------------------------ classification of a change
\* The (major, minor, patch) numbers of a version of three numeric parts.
Numbers(v) == [i \in 1..3 |-> ToNat(SplitDot(v)[i])]

\* latest is strictly greater than current, by their numbers.
NumbersGreater(l, c) ==
    \/ l[1] > c[1]
    \/ l[1] = c[1] /\ l[2] > c[2]
    \/ l[1] = c[1] /\ l[2] = c[2] /\ l[3] > c[3]

\* The ordered rule of the claim.
ClassifyRule(c, l) ==
    IF l[1] > c[1] THEN "major"
    ELSE IF l[2] > c[2] THEN "minor"
    ELSE IF NumbersGreater(l, c) THEN "patch"
    ELSE "none"

WithoutDeclarations ==
    {i \in 1..Len(manifests) :
        \/ manifests[i].kind = "nolist"
        \/ manifests[i].kind = "list" /\ manifests[i].items = <<>>}

\* C22: once the project list is loaded, every manifest found that declares
\* no dependency has an entry in it, with an empty dependency list.
C22_EmptyProjectsListed ==
    ~loading =>
        \A i \in WithoutDeclarations :
            \E p \in 1..Len(projects) :
                /\ projects[p].filePath = manifests[i].path
                /\ projects[p].dependencies = <<>>

\* -------------------------------------------------------------- select all
\* C23: a in DependencySelect selects every dependency of the project viewed
\* that has an update, and leaves the selection of every other dependency
\* as it is.
C23_SelectAllStep ==
    (mode = "dependencies" /\ lastEvent' = "a"
        /\ HasProjectAt(safeSelectedProjectIndex)) =>
        LET c == safeSelectedProjectIndex + 1
        IN  /\ Len(projects') = Len(projects)
            /\ \A i \in 1..Len(projects[c].dependencies) :
                  projects'[c].dependencies[i].selected =
                     (projects[c].dependencies[i].hasUpdate
                         \/ projects[c].dependencies[i].selected)
            /\ \A p \in 1..Len(projects) :
                  p # c => projects'[p] = projects[p]

C23_SelectAllOutdated == [][C23_SelectAllStep]_vars

\* ------------------------------------------------------ leaving ProjectSelect
\* C25: in ProjectSelect the left arrow, the space bar, y and n leave the
\* mode and both cursors as they are; only Return with a project at the
\* cursor leads to DependencySelect.
C25_ProjectSelectStep ==
    mode = "project" =>
        /\ lastEvent' \in {"left", "space", "y", "n"} =>
              /\ mode' = mode
              /\ selectedProjectIndex' = selectedProjectIndex
              /\ selectedDepIndex' = selectedDepIndex
        /\ mode' = "dependencies" =>
              /\ lastEvent' = "return"
              /\ HasProjectAt(safeSelectedProjectIndex)

C25_OnlyConfirmLeavesProjectSelect == [][C25_ProjectSelectStep]_vars

\* ------------------------------------------------- toggle against results
\* The fields a resolution result sets, of every dependency.
ResolutionFields(ps) ==
    [p \in 1..Len(ps) |->
        [i \in 1..Len(ps[p].dependencies) |->
            <<ps[p].dependencies[i].latestVersion,
              ps[p].dependencies[i].hasUpdate,
              ps[p].dependencies[i].loading>>]]

\* C24: a toggle changes no latestVersion, hasUpdate or loading of any
\* dependency, also when the handler that takes the key holds the project
\* list of a render made before a resolution result was applied.
C24_ToggleStep ==
    lastEvent' = "space" => ResolutionFields(projects') = ResolutionFields(projects)

C24_ToggleKeepsResults == [][C24_ToggleStep]_vars

\* ------------------------------------------------------ order of resolution
\* The calls in flight are calls of the project at the loop's position.
InFlightOfOneProject ==
    \A call \in inflight :
        /\ fetchPos \in 1..Len(projects)
        /\ call.filePath = projects[fetchPos].filePath

\* C26: the calls in flight at any time are calls of one project; calls are
\* issued only by a step that leaves no call of an earlier project in
\* flight, for a project later in the list, and that step issues all the
\* calls of that project, none of them settled yet.
C26_IssueStep ==
    /\ InFlightOfOneProject'
    /\ (inflight' \ inflight # {}) =>
          /\ inflight' \cap inflight = {}
          /\ Cardinality(inflight) <= 1
          /\ fetchPos' > fetchPos
          /\ inflight' = CallsOf(projects'[fetchPos'])
          /\ \A i \in 1..Len(projects'[fetchPos'].dependencies) :
                projects'[fetchPos'].dependencies[i].loading

C26_ProjectByProject == [][C26_IssueStep]_vars

\* The two calls of the first project have settled and the call of the
\* second project is in flight.
C26_Witness ==
    /\ lastEvent = "fetch"
    /\ fetchPos = 2
    /\ Len(projects[1].dependencies) = 2
    /\ \A i \in 1..2 : ~projects[1].dependencies[i].loading
    /\ inflight = CallsOf(projects[2])
    /\ inflight # {}

\* ------------------------------------------------------ one result applied
\* The call a step settles.
Settled == inflight \ inflight'

\* The dependency d with the result of the call: nothing but latestVersion,
\* hasUpdate and loading differ from d.
WithResult(d, call, e) ==
    /\ e.latestVersion \in FetchOutcomes(call.name)
    /\ e.hasUpdate \in BOOLEAN
    /\ e.loading = FALSE
    /\ e = [d EXCEPT !.latestVersion = e.latestVersion,
                     !.hasUpdate = e.hasUpdate,
                     !.loading = FALSE]

\* C27: a step in which a resolution call settles sets latestVersion,
\* hasUpdate and loading of the dependency with the call's file path and
\* index, in that very step and whether or not its siblings are in flight,
\* and changes no other field, no other dependency, no project, neither the
\* mode nor any cursor.
C27_SettleStep ==
    lastEvent' = "fetch" =>
        /\ Cardinality(Settled) = 1
        /\ Len(projects') = Len(projects)
        /\ \A call \in Settled :
           \A p \in 1..Len(projects) :
              /\ projects'[p].name = projects[p].name
              /\ projects'[p].filePath = projects[p].filePath
              /\ Len(projects'[p].dependencies) = Len(projects[p].dependencies)
              /\ \A i \in 1..Len(projects[p].dependencies) :
                    IF projects[p].filePath = call.filePath /\ i - 1 = call.index
                    THEN WithResult(projects[p].dependencies[i], call,
                                    projects'[p].dependencies[i])
                    ELSE projects'[p].dependencies[i] = projects[p].dependencies[i]
        /\ mode' = mode
        /\ selectedProjectIndex' = selectedProjectIndex
        /\ selectedDepIndex' = selectedDepIndex

C27_ResultTouchesOwnSpecifier == [][C27_SettleStep]_vars

\* A call has just settled: its dependency shows the result while a
\* sibling is still in flight and loading, and a dependency is selected.
C27_Witness ==
    /\ lastEvent = "fetch"
    /\ mode = "dependencies"
    /\ \E p \in 1..Len(projects) :
       \E i, j \in 1..Len(projects[p].dependencies) :
          /\ ~projects[p].dependencies[i].loading
          /\ projects[p].dependencies[i].latestVersion # Undefined
          /\ projects[p].dependencies[j].loading
          /\ projects[p].dependencies[j].selected
          /\ \E call \in inflight :
                call.filePath = projects[p].filePath /\ call.index = j - 1

\* ------------------------------------------------- algebra of the updater
\* Every call of the session, in flight or settled.
AllCalls == UNION {CallsOf(projects[p]) : p \in 1..Len(projects)}

\* C28: applied to the project list of any state, the results of two
\* different calls give the same list in either order, and a result applied
\* twice gives the list it gives applied once.
C28_CommutativeIdempotent ==
    \A c1 \in AllCalls :
    \A o1 \in FetchOutcomes(c1.name) :
       /\ ApplyResult(ApplyResult(projects, c1, o1), c1, o1) =
             ApplyResult(projects, c1, o1)
       /\ \A c2 \in AllCalls \ {c1} :
          \A o2 \in FetchOutcomes(c2.name) :
             ApplyResult(ApplyResult(projects, c1, o1), c2, o2) =
                ApplyResult(ApplyResult(projects, c2, o2), c1, o1)

\* Two calls of one project are in flight with results that differ from
\* what the list holds, and a dependency of the project is selected.
C28_Witness ==
    \E c1, c2 \in inflight :
       /\ c1 # c2
       /\ c1.filePath = c2.filePath
       /\ \E o1 \in FetchOutcomes(c1.name) \ {Null} :
          \E o2 \in FetchOutcomes(c2.name) \ {Null} :
             /\ ApplyResult(projects, c1, o1) # projects
             /\ ApplyResult(projects, c2, o2) # projects
             /\ ApplyResult(ApplyResult(projects, c1, o1), c2, o2) #
                   ApplyResult(projects, c1, o1)
       /\ \E d \in AllDeps : d.selected

\* ------------------------------------------------------ failed resolution
\* The dependency a call addresses, in the list ps.
TargetOf(ps, call) ==
    LET p == CHOOSE q \in 1..Len(ps) : ps[q].filePath = call.filePath
    IN  ps[p].dependencies[call.index + 1]

\* What the loop does once the call has settled: the other calls of the
\* project stay in flight, or the calls of the next project are issued.
ResolutionGoesOn(call) ==
    IF inflight = {call}
    THEN inflight' = IssuedAt(projects', NextFetchPos(projects', fetchPos + 1))
    ELSE inflight' = inflight \ {call}

\* C29: the step in which a call settles records a result on the call's
\* dependency: null for a blank name, else null or a version; with null it
\* leaves latestVersion = null, hasUpdate = false and loading = false on
\* that dependency and every other dependency as it was; the session stays
\* mounted and the remaining and later calls go on.
C29_FailureStep ==
    lastEvent' = "fetch" =>
        \A call \in Settled :
            LET d == TargetOf(projects, call)
                e == TargetOf(projects', call)
            IN  /\ ~e.loading
                /\ e.latestVersion \in FetchOutcomes(call.name)
                /\ e.latestVersion = Null =>
                      /\ e = [d EXCEPT !.latestVersion = Null,
                                       !.hasUpdate = FALSE,
                                       !.loading = FALSE]
                      /\ projects' = ApplyResult(projects, call, Null)
                /\ ResolutionGoesOn(call)
                /\ exitedBy' = exitedBy

C29_FailureRecordedOnOneDependency == [][C29_FailureStep]_vars

\* The first dependency of the first project failed to resolve; its sibling
\* and the dependency of the next project have resolved to a version.
C29_Witness ==
    /\ Len(projects) >= 2
    /\ Len(projects[1].dependencies) = 2
    /\ projects[1].dependencies[1].latestVersion = Null
    /\ ~projects[1].dependencies[1].loading
    /\ ~projects[1].dependencies[1].hasUpdate
    /\ Resolved(projects[1].dependencies[2])
    /\ Resolved(projects[2].dependencies[1])
    /\ inflight = {}

\* ------------------------------------------------------- shape of the list
\* The projects of a list in order, each with its dependencies' names and
\* constraints as written, in order.
Shape(ps) ==
    [p \in 1..Len(ps) |->
        [filePath |-> ps[p].filePath,
         name |-> ps[p].name,
         dependencies |->
            [i \in 1..Len(ps[p].dependencies) |->
                <<ps[p].dependencies[i].name,
                  ps[p].dependencies[i].originalConstraint>>]]]

\* C30: once loaded, the list has the projects the load produced, in that
\* order, each with the dependencies the load parsed, in that order and
\* with the originalConstraint parsed, whatever events have been handled.
C30_ShapeFixedAtLoad ==
    ~loading => Shape(projects) = Shape(ProjectsData(manifests))

\* Results have been applied and a dependency toggled, in a list of several
\* projects, and the dependency cursor has moved.
C30_Witness ==
    /\ ~loading
    /\ Len(projects) >= 2
    /\ lastEvent = "space"
    /\ selectedDepIndex = 1
    /\ \E d \in AllDeps : d.selected
    /\ \E d \in AllDeps : Resolved(d)
    /\ \E d \in AllDeps : d.latestVersion = Null

\* ------------------------------------------------- resolution terminates
\* The list is loaded and no dependency is resolving.
AllSettled == ~loading /\ \A d \in AllDeps : ~d.loading

\* C31: when every call issued settles, a session that is not ended reaches
\* a state in which no dependency of any project is resolving, whatever
\* keys are pressed in between.
C31_EventuallyAllSettled == <>(~Mounted \/ AllSettled)

\* ------------------------------------------------- fields of a dependency
IsVersionString(v) == v # Undefined /\ v # Null /\ v # <<>>

\* C32: in every state, a dependency that is resolving has latestVersion
\* undefined and hasUpdate false; one that is not resolving has a version
\* string or null as latestVersion; one with hasUpdate true has a version
\* string as latestVersion.
C32_FieldsAgree ==
    \A d \in AllDeps :
        /\ d.loading => d.latestVersion = Undefined /\ ~d.hasUpdate
        /\ ~d.loading => IsVersionString(d.latestVersion) \/ d.latestVersion = Null
        /\ d.hasUpdate => IsVersionString(d.latestVersion)

\* Of one project, a dependency failed to resolve and another has an update;
\* a dependency of another project is resolving; a toggle was the last event.
C32_Witness ==
    /\ lastEvent = "space"
    /\ \E d \in AllDeps : ~d.loading /\ d.latestVersion = Null
    /\ \E d \in AllDeps : d.hasUpdate /\ d.selected
    /\ \E d \in AllDeps : d.loading

\* ------------------------------------------------ a project at the cursor
\* C33: in DependencySelect and in Confirm the project list is not empty
\* and the project cursor is the index of one of its entries.
C33_ProjectAtCursor ==
    mode \in {"dependencies", "confirm"} =>
        /\ projects # <<>>
        /\ HasProjectAt(selectedProjectIndex)

\* ------------------------------------------------- highlighted and toggled
\* The row the dependency table highlights: `index === selectedDepIndex`.
HighlightedDepIndex == selectedDepIndex

\* C34: in DependencySelect with a project shown, the index the toggle uses
\* is the index of the highlighted row.
C34_ToggleHitsHighlighted ==
    (mode = "dependencies" /\ HasCurrentProject) =>
        safeSelectedDepIndex = HighlightedDepIndex

\* --------------------------------------------------- one project per accept
\* The invocations started by a step.
Started == (1..Len(updates')) \ (1..Len(updates))

\* The manifests a step writes.
Written == {i \in 1..Len(disk) : disk'[i] # disk[i]}

\* C35: an invocation started by an accept holds the file path of the
\* project at the project cursor and that project's selected dependencies,
\* and no others; the text it hands to the write is the rewrite of its own
\* file's text for these; a step changes a file only by the write of an
\* invocation that holds the file's path, to the text of that invocation.
C35_AcceptStep ==
    /\ \A u \in Started :
          /\ lastEvent' = "y"
          /\ HasCurrentProject
          /\ updates'[u].filePath = currentProject.filePath
          /\ updates'[u].selectedDeps = SelectedDeps(currentProject)
    /\ \A u \in 1..Len(updates) :
          (updates[u].stage = "read" /\ updates'[u].stage = "write") =>
              /\ updates'[u].content = disk[FileIndex(updates[u].filePath)]
              /\ updates'[u].updatedContent =
                    RewriteAll(updates'[u].content, updates[u].selectedDeps)
    /\ \A i \in Written :
          \E u \in 1..Len(updates) :
             /\ updates[u].stage = "write"
             /\ updates'[u].stage = "done"
             /\ updates[u].filePath = manifests[i].path
             /\ disk'[i] = updates[u].updatedContent

C35_AcceptWritesOwnProjectOnly == [][C35_AcceptStep]_vars

\* The second project's file has been written for its selected dependency,
\* whose resolution failed, while the first project's dependency, declared
\* by the same text, is selected and has an update: both files are as they
\* were.
C35_Witness ==
    /\ lastEvent = "written"
    /\ manifests = <<ManifestA, ManifestC>>
    /\ \E u \in 1..Len(updates) :
          updates[u].stage = "done" /\ updates[u].filePath = ManifestC.path
    /\ projects[1].dependencies[1].selected
    /\ projects[1].dependencies[1].hasUpdate
    /\ projects[2].dependencies[1].selected
    /\ projects[2].dependencies[1].latestVersion = Null
    /\ disk[1] = ManifestText(ManifestA)
    /\ disk[2] = ManifestText(ManifestC)

\* ------------------------------------------------ unresolved and selected
\* The characters of the text s.
CharsOf(s) == {s[k] : k \in 1..Len(s)}

\* C36: in the text handed to the write, the declaration of a selected
\* dependency whose latestVersion was undefined (still resolving) or null
\* (failed) at the accept stands as it was, and no declaration holds
\* "undefined" or "null" for a version.
C36_UnresolvedLeftAlone ==
    \A u \in Rewritten :
        LET deps == DepsOfFile(updates[u].filePath)
            old  == ItemsOf(updates[u].content)
            new  == ItemsOf(updates[u].updatedContent)
        IN  /\ Len(new) = Len(old)
            /\ Len(old) = Len(deps)
            /\ \A i \in 1..Len(deps) :
                  /\ (/\ deps[i].selected
                      /\ updates[u].selectedDeps[Rank(deps, i)].latestVersion
                            \in {Undefined, Null})
                        => new[i] = old[i]
                  /\ CharsOf(new[i].s) \cap {"undefined", "null"} = {}

\* --------------------------------------------- magnitude and update flag
\* C37: for a dependency resolved to a version, with both versions of three
\* numeric components, the change shown is other than "none" exactly when
\* compareVersions finds the latest version greater.
C37_MagnitudeAgreesWithFlag ==
    \A d \in AllDeps :
        (/\ Resolved(d)
         /\ SemverValid(Trim(StripOpChars(d.currentVersion)))
         /\ SemverValid(d.latestVersion)) =>
            ((getVersionChangeType(d.currentVersion, d.latestVersion) # "none")
                <=> compareVersions(d.currentVersion, d.latestVersion))

=============================================================================
